---- MODULE Spec2Model ----
(***************************************************************************)
(* Model of the Metriful MS430 host driver (Python/Raspberry_Pi):          *)
(*   sensor_package/sensor_mode.py   SensorMode                            *)
(*   sensor_package/cycle_status.py  CycleStatus                           *)
(*   sensor_package/sensor.py        Sensor                                *)
(*                                                                         *)
(* Python objects are functions from attribute names to values; an         *)
(* attribute that was never assigned is absent from the DOMAIN.  An        *)
(* Optional[int] argument is a set: {} is None, {n} is the integer n.      *)
(*                                                                         *)
(* The I2C bus (smbus) and the GPIO library (RPi.GPIO) are external: the   *)
(* bus returns a block of some length, the READY line is driven by the     *)
(* board (DeviceBusy / DeviceReady), and event_detected(pin) returns and   *)
(* clears the falling-edge latch of an armed pin.                          *)
(*                                                                         *)
(* Time inside is_ready is counted in poll intervals (time.sleep(0.05)).   *)
(*                                                                         *)
(* The Sensor the operations act on carries the attributes Sensor.__init__ *)
(* assigns (mode, cycle_status, particle_sensor) with a mode object whose  *)
(* attributes have the values set_mode assigns for its mode; Init is the   *)
(* point where __init__ enters _init_hardware.  Constructing a SensorMode  *)
(* or a Sensor, and set_mode itself, are the actions NewSensorMode,        *)
(* NewSensor, ChangeSensorMode and SetMode, modelled as the code runs.     *)
(***************************************************************************)
EXTENDS Integers, Sequences, FiniteSets, TLC

(* ---- bounds ---- *)
\* TIMEOUT / poll interval: 5 s / 0.05 s in the source, scaled down
TimeoutPolls == 1
\* largest integer mode argument tried (valid modes are 0..2)
MaxModeArg == 3
\* number of measurements (_get_all_data entries) followed
MaxMeas == 2
\* iterations of the cycle loop followed (count is unbounded in the source)
MaxCount == 1
\* largest peak argument of set_sound_interrupt_threshold tried
MaxPeak == 65535

(* ---- sensor_constants.py ---- *)
on_demand_measure_cmd == 225
reset_cmd == 226
cycle_mode_cmd == 228
standby_mode_cmd == 229
cycle_time_period_reg == 137
air_data_read == 16
air_quality_data_read == 17
light_data_read == 18
sound_data_read == 19
particle_data_read == 20
standby_mode == 0
cycle_mode == 1
on_demand == 2
particle_sensor_off == 0
particle_sensor_ppd42 == 1
particle_sensor_sds011 == 2
air_data_bytes == 12
air_quality_data_bytes == 10
light_data_bytes == 5
sound_data_bytes == 18
particle_data_bytes == 6
\* "any 16-bit integer": the largest
uint16_max == 65535

\* the five categories in the order _get_all_data calls them
NumCats == 5
Cats == 1..NumCats
DataRead(c) ==
    CASE c = 1 -> air_data_read
      [] c = 2 -> air_quality_data_read
      [] c = 3 -> light_data_read
      [] c = 4 -> sound_data_read
      [] c = 5 -> particle_data_read
DataBytes(c) ==
    CASE c = 1 -> air_data_bytes
      [] c = 2 -> air_quality_data_bytes
      [] c = 3 -> light_data_bytes
      [] c = 4 -> sound_data_bytes
      [] c = 5 -> particle_data_bytes

(* ---- Python values ---- *)
None == {}
Some(n) == {n}
Get(x) == CHOOSE n \in x : TRUE
\* truth value of an Optional[int]: None and 0 are falsy
Truthy(x) == x # None /\ x # Some(0)
\* Python's "x or d"
Or(x, d) == IF Truthy(x) THEN x ELSE d
HasAttr(o, a) == a \in DOMAIN o
SetAttr(o, a, v) == [x \in (DOMAIN o) \cup {a} |-> IF x = a THEN v ELSE o[x]]
NewObject == [x \in {} |-> 0]

Threads == {"main", "worker"}

VARIABLES
    pc,              \* [Threads -> [at, c]]  position of each control flow
    mode,            \* self.mode: the SensorMode object
    cycle_active,    \* self.cycle_status.active
    particle_sensor, \* self.particle_sensor
    gpio,            \* RPi.GPIO: [setup, armed, event]
    ready_level,     \* level of the READY pin
    elapsed,         \* [Threads -> Nat] polls slept in the running is_ready
    raw,             \* [Cats -> [len, meas]] self.raw_*_data
    val,             \* [Cats -> Nat] measurement the decoded fields of a
                     \*   category come from; 0: never assigned
    hist,            \* [Threads -> Seq] hardware operations of the running
                     \*   call (main) or loop iteration (worker)
    nmeas,           \* measurements started so far
    mid,             \* [Threads -> Nat] measurement a thread is reading
    count,           \* count of _run_cycle
    main_alive,      \* threading.main_thread().is_alive()
    last,            \* outcome of the caller's last call
    bus,             \* I2C traffic so far: resets, the number of reset
                     \*   commands written; reader, the control flow whose
                     \*   running measurement issued the latest block read
    io               \* the latest call of a decoder or of a threshold
                     \*   setter: [call, arg, exc, msg, out]

vars == <<pc, mode, cycle_active, particle_sensor, gpio, ready_level, elapsed,
          raw, val, hist, nmeas, mid, count, main_alive, last, bus, io>>

At(t, a) == pc[t].at = a
Goto(t, a) == pc' = [pc EXCEPT ![t] = [at |-> a, c |-> 0]]
GotoCat(t, a, k) == pc' = [pc EXCEPT ![t] = [at |-> a, c |-> k]]
\* a hardware operation: op, the operation; v, the byte written or the
\* register read; n, the number of bytes asked for by a block read
Ev(o, v) == [op |-> o, v |-> v, n |-> 0]
EvRead(c) == [op |-> "read", v |-> DataRead(c), n |-> DataBytes(c)]
Log(t, e) == hist' = [hist EXCEPT ![t] = Append(@, e)]
\* no decoder or setter called yet
NoCall == [call |-> "none", arg |-> 0, exc |-> "none", msg |-> "", out |-> 0]
\* call: the method, arg: its mode argument, exc: the exception that occurred
\* in it, raised: whether it reached the caller, before: the sensor's mode
\* object before the call, obj: the mode object the call left behind (none
\* when a constructor raised: the caller gets no object)
Outcome(call, arg, exc, raised, before, obj) ==
    [call |-> call, arg |-> arg, exc |-> exc, raised |-> raised,
     before |-> before, obj |-> obj]

TypeOK ==
    /\ DOMAIN pc = Threads
    /\ cycle_active \in BOOLEAN
    /\ particle_sensor \in {particle_sensor_off, particle_sensor_ppd42,
                            particle_sensor_sds011}
    /\ ready_level \in {0, 1}
    /\ \A t \in Threads : elapsed[t] \in 0..(TimeoutPolls + 1)
    /\ \A c \in Cats : val[c] \in 0..(MaxMeas + MaxCount)
    /\ main_alive \in BOOLEAN

(* ---- sensor_mode.py ---- *)
default_cycle_time == 5

ModeName(m) ==
    CASE m = standby_mode -> "standby"
      [] m = cycle_mode -> "cycle"
      [] m = on_demand -> "on_demand"
ModeCmd(m) ==
    CASE m = standby_mode -> standby_mode_cmd
      [] m = cycle_mode -> cycle_mode_cmd
      [] m = on_demand -> on_demand_measure_cmd

\* validate_mode: mode in [standby_mode, cycle_mode, on_demand]
validate_mode(m) ==
    m \in {Some(standby_mode), Some(cycle_mode), Some(on_demand)}

\* set_mode(self, mode).  Each branch assigns mode_name and mode_value and
\* then evaluates self.SensorConstants(), an attribute the object does not
\* have: AttributeError, before trigger_byte is assigned.
set_mode(self, m) ==
    IF ~validate_mode(m)
    THEN [obj |-> self, exc |-> "ValueError"]
    ELSE LET o1 == SetAttr(self, "mode_name", ModeName(Get(m)))
             o2 == SetAttr(o1, "mode_value", Get(m))
         IN  IF HasAttr(self, "SensorConstants")
             THEN [obj |-> SetAttr(o2, "trigger_byte", ModeCmd(Get(m))),
                   exc |-> "none"]
             ELSE [obj |-> o2, exc |-> "AttributeError"]

\* a call self.set_mode(*args): set_mode takes one argument besides self
Call_set_mode(self, args) ==
    IF Len(args) # 1
    THEN [obj |-> self, exc |-> "TypeError"]
    ELSE set_mode(self, args[1])

\* SensorMode(mode, cycle_time): lines 29-32
SensorMode__init__(m, ct) ==
    LET m1 == Or(m, Some(on_demand))
        self1 == SetAttr(NewObject, "cycle_time",
                         Get(Or(ct, Some(default_cycle_time))))
    IN  Call_set_mode(self1, <<m1, ct>>)

\* the mode object set_mode's assignments describe for mode m
ModeObject(m, ct) ==
    [mode_name |-> ModeName(m), mode_value |-> m,
     trigger_byte |-> ModeCmd(m), cycle_time |-> ct]

(* ---- inputs ---- *)
ModeArgs == {None} \cup {Some(m) : m \in 0..MaxModeArg}
CycleArgs == {None, Some(0 - 1), Some(0), Some(1)}
ParticleArgs == {None, Some(particle_sensor_ppd42)}
ValidModes == {standby_mode, cycle_mode, on_demand}
InvalidArg(m) == m # None /\ Get(m) \notin ValidModes

\* attributes a Sensor instance gets from __init__ and _init_hardware
SensorAttrs == {"sensor_constants", "unicode_constants", "mode",
                "cycle_status", "particle_sensor", "i2c_bus"}

NoRaw == [c \in Cats |-> [len |-> 0, meas |-> 0]]
NoVal == [c \in Cats |-> 0]

Init ==
    /\ pc = [t \in Threads |->
               IF t = "main" THEN [at |-> "hw_cleanup", c |-> 0]
                             ELSE [at |-> "off", c |-> 0]]
    /\ \E m \in ValidModes : mode = ModeObject(m, default_cycle_time)
    /\ cycle_active = FALSE
    /\ \E p \in ParticleArgs :
         particle_sensor = Get(Or(p, Some(particle_sensor_off)))
    /\ gpio \in [setup : {FALSE}, armed : {FALSE}, event : {FALSE}]
    /\ ready_level \in {0, 1}
    /\ elapsed = [t \in Threads |-> 0]
    /\ raw = NoRaw
    /\ val = NoVal
    /\ hist = [t \in Threads |-> <<>>]
    /\ nmeas = 0
    /\ mid = [t \in Threads |-> 0]
    /\ count = 1
    /\ main_alive = TRUE
    /\ last = Outcome("none", None, "none", FALSE, NewObject, NewObject)
    /\ bus = [resets |-> 0, reader |-> "none"]
    /\ io = NoCall

(* ---- the board ---- *)
\* the board raises READY while it is busy
DeviceBusy ==
    /\ ready_level = 0
    /\ ready_level' = 1
    /\ UNCHANGED <<pc, mode, cycle_active, particle_sensor, gpio, elapsed,
                   raw, val, hist, nmeas, mid, count, main_alive, last>>
    /\ UNCHANGED bus
    /\ UNCHANGED io

\* the board pulls READY low: a falling edge, latched if the pin is armed
DeviceReady ==
    /\ ready_level = 1
    /\ ready_level' = 0
    /\ gpio' = IF gpio.armed THEN [gpio EXCEPT !.event = TRUE] ELSE gpio
    /\ UNCHANGED <<pc, mode, cycle_active, particle_sensor, elapsed,
                   raw, val, hist, nmeas, mid, count, main_alive, last>>
    /\ UNCHANGED bus
    /\ UNCHANGED io

(* ---- Sensor._init_hardware ---- *)
\* gpio.cleanup()
GpioCleaned == [setup |-> FALSE, armed |-> FALSE, event |-> FALSE]

HwCleanup ==
    /\ At("main", "hw_cleanup")
    /\ gpio' = GpioCleaned
    /\ hist' = [hist EXCEPT !["main"] = <<Ev("gpio_cleanup", 0)>>]
    /\ Goto("main", "hw_setup")
    /\ UNCHANGED <<mode, cycle_active, particle_sensor, ready_level, elapsed,
                   raw, val, nmeas, mid, count, main_alive, last>>
    /\ UNCHANGED bus
    /\ UNCHANGED io

HwSetup ==
    /\ At("main", "hw_setup")
    /\ gpio' = [gpio EXCEPT !.setup = TRUE]
    /\ Log("main", Ev("gpio_setup", 0))
    /\ Goto("main", "hw_wait_power")
    /\ UNCHANGED <<mode, cycle_active, particle_sensor, ready_level, elapsed,
                   raw, val, nmeas, mid, count, main_alive, last>>
    /\ UNCHANGED bus
    /\ UNCHANGED io

\* while gpio.input(ready_pin) == 1: sleep
HwWaitPowerOn ==
    /\ At("main", "hw_wait_power")
    /\ ready_level = 0
    /\ Goto("main", "hw_reset")
    /\ UNCHANGED <<mode, cycle_active, particle_sensor, gpio, ready_level,
                   elapsed, raw, val, hist, nmeas, mid, count, main_alive,
                   last>>
    /\ UNCHANGED bus
    /\ UNCHANGED io

\* _init_hardware without the reset write
HwResetSkipped ==
    /\ At("main", "hw_reset")
    /\ Goto("main", "hw_wait_reset")
    /\ UNCHANGED <<mode, cycle_active, particle_sensor, gpio, ready_level,
                   elapsed, raw, val, hist, nmeas, mid, count, main_alive,
                   last, bus>>
    /\ UNCHANGED io

\* lines 94-98: write_byte(address, reset_cmd)
HwReset ==
    /\ At("main", "hw_reset")
    /\ Log("main", Ev("write", reset_cmd))
    /\ bus' = [bus EXCEPT !.resets = @ + 1]
    /\ Goto("main", "hw_wait_reset")
    /\ UNCHANGED <<mode, cycle_active, particle_sensor, gpio, ready_level,
                   elapsed, raw, val, nmeas, mid, count, main_alive, last>>
    /\ UNCHANGED io

HwWaitReset ==
    /\ At("main", "hw_wait_reset")
    /\ ready_level = 0
    /\ Goto("main", "hw_arm")
    /\ UNCHANGED <<mode, cycle_active, particle_sensor, gpio, ready_level,
                   elapsed, raw, val, hist, nmeas, mid, count, main_alive,
                   last>>
    /\ UNCHANGED bus
    /\ UNCHANGED io

\* gpio.add_event_detect(ready_pin, gpio.FALLING); the constructor returns
HwArm ==
    /\ At("main", "hw_arm")
    /\ gpio' = [gpio EXCEPT !.armed = TRUE]
    /\ Log("main", Ev("gpio_arm", 0))
    /\ Goto("main", "idle")
    /\ last' = Outcome("_init_hardware", None, "none", FALSE, mode, mode)
    /\ UNCHANGED <<mode, cycle_active, particle_sensor, ready_level, elapsed,
                   raw, val, nmeas, mid, count, main_alive>>
    /\ UNCHANGED bus
    /\ UNCHANGED io

(* ---- mode operations of the caller ---- *)
\* SensorMode(m, ct) called on its own
NewSensorMode(m, ct) ==
    /\ At("main", "idle")
    /\ LET r == SensorMode__init__(m, ct)
       IN  last' = Outcome("SensorMode", m, r.exc, r.exc # "none", mode,
                           IF r.exc = "none" THEN r.obj ELSE NewObject)
    /\ hist' = [hist EXCEPT !["main"] = <<>>]
    /\ UNCHANGED <<pc, mode, cycle_active, particle_sensor, gpio, ready_level,
                   elapsed, raw, val, nmeas, mid, count, main_alive>>
    /\ UNCHANGED bus
    /\ UNCHANGED io

\* sensor.mode.set_mode(m)
SetMode(m) ==
    /\ At("main", "idle")
    /\ LET r == Call_set_mode(mode, <<m>>)
       IN  /\ mode' = r.obj
           /\ last' = Outcome("set_mode", m, r.exc, r.exc # "none", mode,
                              r.obj)
    /\ hist' = [hist EXCEPT !["main"] = <<>>]
    /\ UNCHANGED <<pc, cycle_active, particle_sensor, gpio, ready_level,
                   elapsed, raw, val, nmeas, mid, count, main_alive>>
    /\ UNCHANGED bus
    /\ UNCHANGED io

\* change_sensor_mode: self.mode = SensorMode(mode, cycle_time)
ChangeSensorMode(m, ct) ==
    /\ At("main", "idle")
    /\ LET r == SensorMode__init__(m, ct)
       IN  /\ mode' = IF r.exc = "none" THEN r.obj ELSE mode
           /\ last' = Outcome("change_sensor_mode", m, r.exc, r.exc # "none",
                              mode, IF r.exc = "none" THEN r.obj ELSE mode)
    /\ hist' = [hist EXCEPT !["main"] = <<>>]
    /\ UNCHANGED <<pc, cycle_active, particle_sensor, gpio, ready_level,
                   elapsed, raw, val, nmeas, mid, count, main_alive>>
    /\ UNCHANGED bus
    /\ UNCHANGED io

\* NewSensor with _init_hardware begun before the mode object is built
NewSensorHardwareFirst(m, ct, ps) ==
    /\ At("main", "idle")
    /\ gpio' = GpioCleaned
    /\ hist' = [hist EXCEPT !["main"] = <<Ev("gpio_cleanup", 0)>>]
    /\ LET r == SensorMode__init__(m, ct)
       IN  IF r.exc # "none"
           THEN /\ last' = Outcome("Sensor", m, r.exc, TRUE, mode, NewObject)
                /\ UNCHANGED <<pc, mode, cycle_active, particle_sensor>>
           ELSE /\ mode' = r.obj
                /\ cycle_active' = FALSE
                /\ particle_sensor' = Get(Or(ps, Some(particle_sensor_off)))
                /\ last' = Outcome("Sensor", m, "none", FALSE, mode, r.obj)
                /\ Goto("main", "hw_setup")
    /\ UNCHANGED <<ready_level, elapsed, raw, val, nmeas, mid, count,
                   main_alive, bus>>
    /\ UNCHANGED io

\* Sensor(m, ct, ps): lines 61-73.  The mode object is built first; only a
\* constructor that gets past it goes on to _init_hardware.
NewSensor(m, ct, ps) ==
    /\ At("main", "idle")
    /\ LET r == SensorMode__init__(m, ct)
       IN  IF r.exc # "none"
           THEN /\ last' = Outcome("Sensor", m, r.exc, TRUE, mode, NewObject)
                /\ hist' = [hist EXCEPT !["main"] = <<>>]
                /\ UNCHANGED <<pc, mode, cycle_active, particle_sensor>>
           ELSE /\ mode' = r.obj
                /\ cycle_active' = FALSE
                /\ particle_sensor' = Get(Or(ps, Some(particle_sensor_off)))
                /\ last' = Outcome("Sensor", m, "none", FALSE, mode, r.obj)
                /\ hist' = [hist EXCEPT !["main"] = <<>>]
                /\ Goto("main", "hw_cleanup")
    /\ UNCHANGED <<gpio, ready_level, elapsed, raw, val, nmeas, mid, count,
                   main_alive>>
    /\ UNCHANGED bus
    /\ UNCHANGED io

(* ---- Sensor: operations of the caller ---- *)
\* cleanup_gpio
CleanupGpio ==
    /\ At("main", "idle")
    /\ gpio' = GpioCleaned
    /\ hist' = [hist EXCEPT !["main"] = <<Ev("gpio_cleanup", 0)>>]
    /\ last' = Outcome("cleanup_gpio", None, "none", FALSE, mode, mode)
    /\ UNCHANGED <<pc, mode, cycle_active, particle_sensor, ready_level,
                   elapsed, raw, val, nmeas, mid, count, main_alive>>
    /\ UNCHANGED bus
    /\ UNCHANGED io

\* standby: write_byte(address, self.mode.trigger_byte)
Standby ==
    /\ At("main", "idle")
    /\ hist' = [hist EXCEPT !["main"] = <<Ev("write", mode.trigger_byte)>>]
    /\ last' = Outcome("standby", None, "none", FALSE, mode, mode)
    /\ UNCHANGED <<pc, mode, cycle_active, particle_sensor, gpio, ready_level,
                   elapsed, raw, val, nmeas, mid, count, main_alive>>
    /\ UNCHANGED bus
    /\ UNCHANGED io

\* stop_cycle
StopCycle ==
    /\ At("main", "idle")
    /\ cycle_active' = FALSE
    /\ hist' = [hist EXCEPT !["main"] = <<>>]
    /\ last' = Outcome("stop_cycle", None, "none", FALSE, mode, mode)
    /\ UNCHANGED <<pc, mode, particle_sensor, gpio, ready_level, elapsed,
                   raw, val, nmeas, mid, count, main_alive>>
    /\ UNCHANGED bus
    /\ UNCHANGED io

\* cycle: the argument list [self.cycle_time] is evaluated before the write;
\* a Sensor has no attribute cycle_time (it is self.mode.cycle_time)
Cycle ==
    /\ At("main", "idle")
    /\ IF "cycle_time" \in SensorAttrs
       THEN /\ hist' = [hist EXCEPT !["main"] =
                          <<Ev("write_block", cycle_time_period_reg)>>]
            /\ cycle_active' = TRUE
            /\ pc' = [pc EXCEPT !["worker"] = [at |-> "w_loop", c |-> 0]]
            /\ count' = 1
            /\ last' = Outcome("cycle", None, "none", FALSE, mode, mode)
       ELSE /\ hist' = [hist EXCEPT !["main"] = <<>>]
            /\ last' = Outcome("cycle", None, "AttributeError", TRUE, mode,
                               mode)
            /\ UNCHANGED <<pc, cycle_active, count>>
    /\ UNCHANGED <<mode, particle_sensor, gpio, ready_level, elapsed, raw,
                   val, nmeas, mid, main_alive>>
    /\ UNCHANGED bus
    /\ UNCHANGED io

\* measure, line 168: the trigger write; then is_ready starts its clock
Measure ==
    /\ At("main", "idle")
    /\ nmeas < MaxMeas
    /\ hist' = [hist EXCEPT !["main"] = <<Ev("write", mode.trigger_byte)>>]
    /\ elapsed' = [elapsed EXCEPT !["main"] = 0]
    /\ Goto("main", "poll")
    /\ last' = Outcome("measure", None, "running", FALSE, mode, mode)
    /\ UNCHANGED <<mode, cycle_active, particle_sensor, gpio, ready_level,
                   raw, val, nmeas, mid, count, main_alive>>
    /\ UNCHANGED bus
    /\ UNCHANGED io

(* ---- is_ready, _get_all_data: run by the caller and by the worker ---- *)
\* Handle with the loop of _run_cycle going on after an exception
HandleRetries(t, e) ==
    /\ mid' = [mid EXCEPT ![t] = 0]
    /\ bus' = IF bus.reader = t THEN [bus EXCEPT !.reader = "none"] ELSE bus
    /\ IF t = "main"
       THEN /\ Goto(t, "idle")
            /\ last' = Outcome("measure", None, e, FALSE, mode, mode)
            /\ UNCHANGED count
       ELSE /\ Goto(t, "w_loop")
            /\ count' = count + 1
            /\ UNCHANGED last

\* an exception leaves the try block: measure prints it and returns
\* (lines 176-181); _run_cycle prints it, counts and breaks (lines 221-231)
Handle(t, e) ==
    /\ mid' = [mid EXCEPT ![t] = 0]
    /\ bus' = IF bus.reader = t THEN [bus EXCEPT !.reader = "none"] ELSE bus
    /\ IF t = "main"
       THEN /\ Goto(t, "idle")
            /\ last' = Outcome("measure", None, e, FALSE, mode, mode)
            /\ UNCHANGED count
       ELSE /\ Goto(t, "w_done")
            /\ count' = count + 1
            /\ UNCHANGED last

\* the try block ended normally
Finish(t) ==
    /\ mid' = [mid EXCEPT ![t] = 0]
    /\ bus' = IF bus.reader = t THEN [bus EXCEPT !.reader = "none"] ELSE bus
    /\ IF t = "main"
       THEN /\ Goto(t, "idle")
            /\ last' = Outcome("measure", None, "none", FALSE, mode, mode)
            /\ UNCHANGED count
       ELSE /\ Goto(t, "w_loop")
            /\ count' = count + 1
            /\ UNCHANGED last

\* the comparison of line 144 made one poll late
TimedOutLate(e) == e > TimeoutPolls + 1

\* line 144
TimedOut(e) == e > TimeoutPolls

\* line 140: gpio.event_detected(ready_pin); a detected event is consumed
IsReadyCheck(t) ==
    /\ At(t, "poll")
    /\ IF gpio.event
       THEN /\ gpio' = [gpio EXCEPT !.event = FALSE]
            /\ Log(t, Ev("ready", 0))
            /\ elapsed' = [elapsed EXCEPT ![t] = 0]
            /\ Goto(t, "stabilize")
       ELSE /\ Goto(t, "sleep")
            /\ UNCHANGED <<gpio, hist, elapsed>>
    /\ UNCHANGED <<mode, cycle_active, particle_sensor, ready_level,
                   raw, val, nmeas, mid, count, main_alive, last>>
    /\ UNCHANGED bus
    /\ UNCHANGED io

\* IsReadySleep with the timeout swallowed: the reads follow anyway
IsReadySleepReadsAnyway(t) ==
    /\ At(t, "sleep")
    /\ IF TimedOut(elapsed[t] + 1)
       THEN /\ elapsed' = [elapsed EXCEPT ![t] = 0]
            /\ Goto(t, "stabilize")
       ELSE /\ elapsed' = [elapsed EXCEPT ![t] = @ + 1]
            /\ Goto(t, "poll")
    /\ UNCHANGED <<mode, cycle_active, particle_sensor, gpio, ready_level,
                   raw, val, hist, nmeas, main_alive, count, last, mid, bus>>
    /\ UNCHANGED io

\* lines 141-148: sleep one poll interval, then compare the clock
IsReadySleep(t) ==
    /\ At(t, "sleep")
    /\ IF TimedOut(elapsed[t] + 1)
       THEN /\ elapsed' = [elapsed EXCEPT ![t] = 0]
            /\ Handle(t, "IOError")
       ELSE /\ elapsed' = [elapsed EXCEPT ![t] = @ + 1]
            /\ Goto(t, "poll")
            /\ UNCHANGED <<count, last, mid, bus>>
    /\ UNCHANGED <<mode, cycle_active, particle_sensor, gpio, ready_level,
                   raw, val, hist, nmeas, main_alive>>
    /\ UNCHANGED io

\* _get_all_data, line 243: time.sleep(1.5)
Stabilize(t) ==
    /\ At(t, "stabilize")
    /\ Log(t, Ev("delay", 0))
    /\ nmeas' = nmeas + 1
    /\ mid' = [mid EXCEPT ![t] = nmeas + 1]
    /\ GotoCat(t, "read", 1)
    /\ UNCHANGED <<mode, cycle_active, particle_sensor, gpio, ready_level,
                   elapsed, raw, val, count, main_alive, last>>
    /\ UNCHANGED bus
    /\ UNCHANGED io

\* lengths the bus may return for a block of category c
Lengths(c) == {DataBytes(c), DataBytes(c) - 1}

\* get_*_data: self.raw_*_data = read_i2c_block_data(address, register, bytes)
Read(t) ==
    /\ At(t, "read")
    /\ LET c == pc[t].c
       IN  /\ \E n \in Lengths(c) :
                raw' = [raw EXCEPT ![c] = [len |-> n, meas |-> mid[t]]]
           /\ Log(t, EvRead(c))
           /\ bus' = [bus EXCEPT !.reader = t]
           /\ GotoCat(t, "extract", c)
    /\ UNCHANGED <<mode, cycle_active, particle_sensor, gpio, ready_level,
                   elapsed, val, nmeas, mid, count, main_alive, last>>
    /\ UNCHANGED io

\* the length check of _extract_*_data; _extract_particle_data returns
\* before it when no particle sensor is configured
LengthError(c) ==
    /\ ~(c = NumCats /\ particle_sensor = particle_sensor_off)
    /\ raw[c].len # DataBytes(c)

\* the measurement whose data the fields of category c are assigned from
Decoded(t, c) ==
    IF c = NumCats /\ particle_sensor = particle_sensor_off
    THEN mid[t]
    ELSE raw[c].meas

\* _extract_*_data, then the next get_*_data of _get_all_data
Extract(t) ==
    /\ At(t, "extract")
    /\ LET c == pc[t].c
       IN  IF LengthError(c)
           THEN Handle(t, "Exception") /\ UNCHANGED val
           ELSE /\ val' = [val EXCEPT ![c] = Decoded(t, c)]
                /\ IF c < NumCats
                   THEN /\ GotoCat(t, "read", c + 1)
                        /\ UNCHANGED <<count, last, mid, bus>>
                   ELSE Finish(t)
    /\ UNCHANGED <<mode, cycle_active, particle_sensor, gpio, ready_level,
                   elapsed, raw, hist, nmeas, main_alive>>
    /\ UNCHANGED io

MainIsReadyCheck == IsReadyCheck("main")
MainIsReadySleep == IsReadySleep("main")
MainStabilize == Stabilize("main")
MainRead == Read("main")
MainExtract == Extract("main")

(* ---- Sensor._run_cycle: the worker thread ---- *)
loop_count == 20

\* line 208: self.cycle_status.is_active or count <= 20.  is_active is not
\* called: the operand is the bound method, which is true
LoopCondition == TRUE \/ count <= loop_count

RunCycleLoop ==
    /\ At("worker", "w_loop")
    /\ IF LoopCondition
       THEN Goto("worker", "w_alive")
       ELSE Goto("worker", "w_done")
    /\ UNCHANGED <<mode, cycle_active, particle_sensor, gpio, ready_level,
                   elapsed, raw, val, hist, nmeas, mid, count, main_alive,
                   last>>
    /\ UNCHANGED bus
    /\ UNCHANGED io

\* RunCycleAlive without the test of the main thread
RunCycleAliveIgnoresMain ==
    /\ At("worker", "w_alive")
    /\ count <= MaxCount
    /\ hist' = [hist EXCEPT !["worker"] = <<>>]
    /\ elapsed' = [elapsed EXCEPT !["worker"] = 0]
    /\ Goto("worker", "poll")
    /\ UNCHANGED <<mode, cycle_active, particle_sensor, gpio, ready_level,
                   raw, val, nmeas, mid, count, main_alive, last>>
    /\ UNCHANGED bus
    /\ UNCHANGED io

\* lines 210-214: break if the main thread ended, else enter is_ready
RunCycleAlive ==
    /\ At("worker", "w_alive")
    /\ IF ~main_alive
       THEN /\ Goto("worker", "w_done")
            /\ UNCHANGED <<hist, elapsed>>
       ELSE /\ count <= MaxCount
            /\ hist' = [hist EXCEPT !["worker"] = <<>>]
            /\ elapsed' = [elapsed EXCEPT !["worker"] = 0]
            /\ Goto("worker", "poll")
    /\ UNCHANGED <<mode, cycle_active, particle_sensor, gpio, ready_level,
                   raw, val, nmeas, mid, count, main_alive, last>>
    /\ UNCHANGED bus
    /\ UNCHANGED io

WorkerIsReadyCheck == IsReadyCheck("worker")
WorkerIsReadySleep == IsReadySleep("worker")
WorkerStabilize == Stabilize("worker")
WorkerRead == Read("worker")
WorkerExtract == Extract("worker")

\* the main thread ends
MainExit ==
    /\ At("main", "idle")
    /\ main_alive' = FALSE
    /\ Goto("main", "exited")
    /\ UNCHANGED <<mode, cycle_active, particle_sensor, gpio, ready_level,
                   elapsed, raw, val, hist, nmeas, mid, count, last>>
    /\ UNCHANGED bus
    /\ UNCHANGED io

\* the board
Board ==
    \/ DeviceBusy
    \/ DeviceReady

\* _init_hardware
InitHardware ==
    \/ HwCleanup
    \/ HwSetup
    \/ HwWaitPowerOn
    \/ HwReset
    \/ HwWaitReset
    \/ HwArm

\* calls that leave the cycle thread and the measurement alone
Housekeeping ==
    \/ CleanupGpio
    \/ Standby

\* cycle, stop_cycle and measure, and the steps of measure
Caller ==
    \/ StopCycle
    \/ Cycle
    \/ Measure
    \/ MainIsReadyCheck
    \/ MainIsReadySleep
    \/ MainStabilize
    \/ MainRead
    \/ MainExtract

Worker ==
    \/ RunCycleLoop
    \/ RunCycleAlive
    \/ WorkerIsReadyCheck
    \/ WorkerIsReadySleep
    \/ WorkerStabilize
    \/ WorkerRead
    \/ WorkerExtract

\* a caller that constructs the sensor and measures
Next ==
    \/ Board
    \/ InitHardware
    \/ Housekeeping
    \/ Caller

Spec == Init /\ [][Next]_vars

\* the thread inside is_ready keeps running its loop
FairSpec ==
    Spec /\ WF_vars(MainIsReadyCheck) /\ WF_vars(MainIsReadySleep)

\* a caller that sets the mode
NextMode ==
    \/ Board
    \/ InitHardware
    \/ \E m \in ModeArgs, ct \in CycleArgs : NewSensorMode(m, ct)
    \/ \E m \in ModeArgs : SetMode(m)
    \/ \E m \in ModeArgs, ct \in CycleArgs : ChangeSensorMode(m, ct)
    \/ \E m \in ModeArgs, ct \in CycleArgs, ps \in ParticleArgs :
         NewSensor(m, ct, ps)
    \/ CleanupGpio
    \/ Standby

SpecMode == Init /\ [][NextMode]_vars

\* The thread target _run_cycle running beside the caller: the state in
\* which line 200 starts the thread, on a sensor constructed in cycle mode.
InitCycle ==
    /\ pc = [t \in Threads |->
               IF t = "main" THEN [at |-> "idle", c |-> 0]
                             ELSE [at |-> "w_loop", c |-> 0]]
    /\ mode = ModeObject(cycle_mode, default_cycle_time)
    /\ cycle_active = TRUE
    /\ \E p \in ParticleArgs :
         particle_sensor = Get(Or(p, Some(particle_sensor_off)))
    /\ gpio = [setup |-> TRUE, armed |-> TRUE, event |-> FALSE]
    /\ ready_level = 0
    /\ elapsed = [t \in Threads |-> 0]
    /\ raw = NoRaw
    /\ val = NoVal
    /\ hist = [t \in Threads |->
                 IF t = "main" THEN <<Ev("write_block", cycle_time_period_reg)>>
                               ELSE <<>>]
    /\ nmeas = 0
    /\ mid = [t \in Threads |-> 0]
    /\ count = 1
    /\ main_alive = TRUE
    /\ last = Outcome("cycle", None, "none", FALSE, mode, mode)
    /\ bus = [resets |-> 1, reader |-> "none"]
    /\ io = NoCall

NextCycle ==
    \/ Board
    \/ Caller
    \/ MainExit
    \/ Worker

SpecCycle == InitCycle /\ [][NextCycle]_vars

\* the worker beside a main thread that makes no further call and ends
NextExit ==
    \/ Board
    \/ MainExit
    \/ Worker

SpecExit == InitCycle /\ [][NextExit]_vars

\* the worker thread keeps running
FairSpecExit == SpecExit /\ WF_vars(Worker)

(* ---- decoders and threshold setters: functions of their inputs ---- *)
light_interrupt_threshold_reg == 130
sound_interrupt_threshold_reg == 134
max_lux_value == 3774

\* Python's & and | on non-negative integers, bit by bit
RECURSIVE BitAnd(_, _)
BitAnd(a, b) ==
    IF a = 0 \/ b = 0 THEN 0
    ELSE (IF a % 2 = 1 /\ b % 2 = 1 THEN 1 ELSE 0)
         + 2 * BitAnd(a \div 2, b \div 2)
RECURSIVE BitOr(_, _)
BitOr(a, b) ==
    IF a = 0 THEN b
    ELSE IF b = 0 THEN a
    ELSE (IF a % 2 = 1 \/ b % 2 = 1 THEN 1 ELSE 0)
         + 2 * BitOr(a \div 2, b \div 2)
RECURSIVE Pow2(_)
Pow2(n) == IF n = 0 THEN 1 ELSE 2 * Pow2(n - 1)
ShiftRight(a, n) == a \div Pow2(n)
ShiftLeft(a, n) == a * Pow2(n)

\* a decoder raises Exception(msg): the attributes stay as they are
Raise(self, msg) == [obj |-> self, exc |-> "Exception", msg |-> msg]
\* a decoder returns
Return(self) == [obj |-> self, exc |-> "none", msg |-> ""]

\* _extract_particle_data with the length check made before the test of the
\* configured sensor
extract_particle_data_length_first(self, ps, data) ==
    IF Len(data) # particle_data_bytes
    THEN Raise(self, "Incorrect number of Particle Data bytes supplied to function")
    ELSE Return(SetAttr(SetAttr(SetAttr(SetAttr(self,
                    "duty_cycle_pc", None), "concentration", None),
                    "conc_unit", None), "particle_data_valid", FALSE))

\* _extract_particle_data: self, the decoded particle attributes so far; ps,
\* self.particle_sensor; data, self.raw_particle_data.  The two float values
\* are kept in hundredths.
extract_particle_data(self, ps, data) ==
    IF ps = particle_sensor_off
    THEN Return(SetAttr(SetAttr(SetAttr(SetAttr(self,
                    "duty_cycle_pc", None), "concentration", None),
                    "conc_unit", None), "particle_data_valid", FALSE))
    ELSE IF Len(data) # particle_data_bytes
    THEN Raise(self, "Incorrect number of Particle Data bytes supplied to function")
    ELSE LET o1 == SetAttr(self, "duty_cycle_pc",
                           Some(data[1] * 100 + data[2]))
             o2 == SetAttr(o1, "concentration",
                           Some((data[3] + ShiftLeft(data[4], 8)) * 100
                                + data[5]))
             o3 == SetAttr(o2, "particle_data_valid", data[6] > 0)
             o4 == IF ps = particle_sensor_ppd42
                   THEN SetAttr(o3, "conc_unit", Some("ppL"))
                   ELSE IF ps = particle_sensor_sds011
                   THEN SetAttr(o3, "conc_unit", Some("ug/m3"))
                   ELSE o3
         IN  Return(o4)

temperature_value_mask == 127
temperature_sign_mask == 128

\* _extract_air_data with the sign applied to the integer part only, before
\* the fractional byte is added
extract_air_data_sign_first(self, data) ==
    IF Len(data) # air_data_bytes
    THEN Raise(self, "Incorrect number of Air Data bytes")
    ELSE LET i0 == BitAnd(data[1], temperature_value_mask) * 10
             temp_c == (IF BitAnd(data[1], temperature_sign_mask) # 0
                        THEN 0 - i0 ELSE i0) + data[2]
             o1 == SetAttr(self, "temp_c", temp_c)
             o2 == SetAttr(o1, "temp_f", temp_c * 18 + 3200)
             o3 == SetAttr(o2, "pressure",
                           ShiftLeft(data[6], 24) + ShiftLeft(data[5], 16)
                           + ShiftLeft(data[4], 8) + data[3])
             o4 == SetAttr(o3, "humidity", data[7] * 10 + data[8])
             o5 == SetAttr(o4, "gas_sensor_resistance",
                           ShiftLeft(data[12], 24) + ShiftLeft(data[11], 16)
                           + ShiftLeft(data[10], 8) + data[9])
         IN  Return(o5)

\* _extract_air_data: data, self.raw_air_data.  temp_c and humidity are kept
\* in tenths, temp_f in hundredths (temp_c * 1.8 + 32.0).
extract_air_data(self, data) ==
    IF Len(data) # air_data_bytes
    THEN Raise(self, "Incorrect number of Air Data bytes")
    ELSE LET t0 == BitAnd(data[1], temperature_value_mask) * 10 + data[2]
             temp_c == IF BitAnd(data[1], temperature_sign_mask) # 0
                       THEN 0 - t0 ELSE t0
             o1 == SetAttr(self, "temp_c", temp_c)
             o2 == SetAttr(o1, "temp_f", temp_c * 18 + 3200)
             o3 == SetAttr(o2, "pressure",
                           ShiftLeft(data[6], 24) + ShiftLeft(data[5], 16)
                           + ShiftLeft(data[4], 8) + data[3])
             o4 == SetAttr(o3, "humidity", data[7] * 10 + data[8])
             o5 == SetAttr(o4, "gas_sensor_resistance",
                           ShiftLeft(data[12], 24) + ShiftLeft(data[11], 16)
                           + ShiftLeft(data[10], 8) + data[9])
         IN  Return(o5)

\* interpret_aqi_value with the upper bound of each band inside the band
interpret_aqi_value_closed(aqi) ==
    IF aqi <= 500 THEN "Good"
    ELSE IF aqi <= 1000 THEN "Acceptable"
    ELSE IF aqi <= 1500 THEN "Substandard"
    ELSE IF aqi <= 2000 THEN "Poor"
    ELSE IF aqi <= 3000 THEN "Bad"
    ELSE "Very bad"

\* interpret_aqi_value: aqi, self.aqi in tenths; the value of self.int_aqi
interpret_aqi_value(aqi) ==
    IF aqi < 500 THEN "Good"
    ELSE IF aqi < 1000 THEN "Acceptable"
    ELSE IF aqi < 1500 THEN "Substandard"
    ELSE IF aqi < 2000 THEN "Poor"
    ELSE IF aqi < 3000 THEN "Bad"
    ELSE "Very bad"

\* interpret_aqi_accuracy: the value of self.int_aqi_accuracy
interpret_aqi_accuracy(aqi_accuracy) ==
    IF aqi_accuracy = 1 THEN "Low accuracy, self-calibration ongoing"
    ELSE IF aqi_accuracy = 2 THEN "Medium accuracy, self-calibration ongoing"
    ELSE IF aqi_accuracy = 3 THEN "High accuracy"
    ELSE "Not yet valid, self-calibration incomplete"

\* _extract_air_quality_data: aqi and co2e in tenths, bvoc in hundredths
extract_air_quality_data(self, data) ==
    IF Len(data) # air_quality_data_bytes
    THEN Raise(self, "Incorrect number of Air Quality Data bytes")
    ELSE LET aqi == (data[1] + ShiftLeft(data[2], 8)) * 10 + data[3]
             o1 == SetAttr(self, "aqi", aqi)
             o2 == SetAttr(o1, "co2e",
                           (data[4] + ShiftLeft(data[5], 8)) * 10 + data[6])
             o3 == SetAttr(o2, "bvoc",
                           (data[7] + ShiftLeft(data[8], 8)) * 100 + data[9])
             o4 == SetAttr(o3, "aqi_accuracy", data[10])
             o5 == SetAttr(o4, "int_aqi", interpret_aqi_value(o4.aqi))
             o6 == SetAttr(o5, "int_aqi_accuracy",
                           interpret_aqi_accuracy(o5.aqi_accuracy))
         IN  Return(o6)

\* _extract_light_data with lux assigned before the length is checked
extract_light_data_decode_first(self, data) ==
    LET o1 == SetAttr(self, "lux",
                      (data[1] + ShiftLeft(data[2], 8)) * 100 + data[3])
    IN  IF Len(data) # light_data_bytes
        THEN Raise(o1, "Incorrect number of Light Data bytes supplied to function")
        ELSE Return(SetAttr(o1, "white", data[4] + ShiftLeft(data[5], 8)))

\* _extract_light_data: lux in hundredths
extract_light_data(self, data) ==
    IF Len(data) # light_data_bytes
    THEN Raise(self, "Incorrect number of Light Data bytes supplied to function")
    ELSE LET o1 == SetAttr(self, "lux",
                           (data[1] + ShiftLeft(data[2], 8)) * 100 + data[3])
             o2 == SetAttr(o1, "white", data[4] + ShiftLeft(data[5], 8))
         IN  Return(o2)

sound_freq_bands == 6

\* _extract_sound_data with each band's fraction read from the byte that
\* follows its integer byte
extract_sound_data_interleaved(self, data) ==
    IF Len(data) # sound_data_bytes
    THEN Raise(self, "Incorrect number of Sound Data bytes supplied to function")
    ELSE LET o1 == SetAttr(self, "spl_dba", data[1] * 10 + data[2])
             o2 == SetAttr(o1, "spl_bands_db",
                     [i \in 0..(sound_freq_bands - 1) |->
                        data[2 + 2 * i + 1] * 10 + data[2 + 2 * i + 2]])
             j == 2 + sound_freq_bands + sound_freq_bands
             o3 == SetAttr(o2, "peak_amp",
                           (data[j + 1] + ShiftLeft(data[j + 2], 8)) * 100
                           + data[j + 3])
             o4 == SetAttr(o3, "stable", data[j + 4])
         IN  Return(o4)

\* _extract_sound_data: spl_dba and the bands in tenths, peak_amp in
\* hundredths.  In the loop j runs from 2 to 2 + sound_freq_bands - 1 with i;
\* after it j is 2 + 2 * sound_freq_bands.  Sequences start at 1: byte k of
\* the block is data[k + 1].
extract_sound_data(self, data) ==
    IF Len(data) # sound_data_bytes
    THEN Raise(self, "Incorrect number of Sound Data bytes supplied to function")
    ELSE LET o1 == SetAttr(self, "spl_dba", data[1] * 10 + data[2])
             o2 == SetAttr(o1, "spl_bands_db",
                     [i \in 0..(sound_freq_bands - 1) |->
                        data[(2 + i) + 1] * 10
                        + data[(2 + i) + sound_freq_bands + 1]])
             j == 2 + sound_freq_bands + sound_freq_bands
             o3 == SetAttr(o2, "peak_amp",
                           (data[j + 1] + ShiftLeft(data[j + 2], 8)) * 100
                           + data[j + 3])
             o4 == SetAttr(o3, "stable", data[j + 4])
         IN  Return(o4)

\* set_sound_interrupt_threshold with the bytes sent [MSB, LSB]
set_sound_interrupt_threshold_msb_first(peak) ==
    [reg |-> sound_interrupt_threshold_reg,
     data |-> <<ShiftRight(peak, 8), BitAnd(peak, 255)>>]

\* set_sound_interrupt_threshold: the block written to the bus
set_sound_interrupt_threshold(peak) ==
    [reg |-> sound_interrupt_threshold_reg,
     data |-> <<BitAnd(peak, 255), ShiftRight(peak, 8)>>]

\* set_light_interrupt_threshold: the block written to the bus
set_light_interrupt_threshold(light_thres_lux_i, light_thres_lux_f2dp) ==
    [reg |-> light_interrupt_threshold_reg,
     data |-> <<BitAnd(light_thres_lux_i, 255),
                ShiftRight(light_thres_lux_i, 8),
                light_thres_lux_f2dp>>]

\* inputs
ByteArgs == {0, 1, 255}
ParticleDataArgs ==
    UNION {[1..n -> ByteArgs] :
             n \in {particle_data_bytes - 1, particle_data_bytes}}
PeakArgs == 0..MaxPeak
\* lengths of the blocks handed to the decoder of category c
ArgLengths(c) == {DataBytes(c) - 1, DataBytes(c), DataBytes(c) + 1}
\* a block of n bytes that starts with head and goes on with the byte r
Block(head, r, n) ==
    [k \in 1..n |-> IF k <= Len(head) THEN head[k] ELSE r]
AirQualityDataArgs ==
    {Block(<<b0, b1, b2>>, r, n) :
       b0 \in 0..255, b1 \in {0, 1, 2}, b2 \in {0, 9}, r \in {0, 3},
       n \in ArgLengths(2)}
LightDataArgs ==
    {Block(<<b0, b1, b2>>, r, n) :
       b0 \in {0, 190, 191, 255}, b1 \in {0, 14, 15, 255}, b2 \in {0, 99},
       r \in {0, 1}, n \in ArgLengths(3)}
\* blocks whose bytes all differ
SoundDataArgs ==
    {[k \in 1..n |-> (a * k + b) % 256] :
       a \in {1, 7, 37}, b \in {0, 100, 250}, n \in ArgLengths(4)}
AirDataArgs ==
    {Block(<<b0, b1>>, r, n) :
       b0 \in 0..255, b1 \in {0, 5, 9}, r \in {0, 1}, n \in ArgLengths(1)}
LuxArgs == {0, 255, 256, max_lux_value - 1, max_lux_value,
            max_lux_value + 1, 65535}
FracArgs == {0, 1, 99}

ExtractParticleData(data) ==
    /\ At("main", "idle")
    /\ io.call = "none"
    /\ LET r == extract_particle_data(NewObject, particle_sensor, data)
       IN  io' = [call |-> "_extract_particle_data", arg |-> data,
                  exc |-> r.exc, msg |-> r.msg, out |-> r.obj]
    /\ UNCHANGED <<pc, mode, cycle_active, particle_sensor, gpio, ready_level,
                   elapsed, raw, val, hist, nmeas, mid, count, main_alive,
                   last, bus>>

\* a decoder called on a raw block: r, what it returns
Decode(name, data, r) ==
    /\ At("main", "idle")
    /\ io.call = "none"
    /\ io' = [call |-> name, arg |-> data, exc |-> r.exc, msg |-> r.msg,
              out |-> r.obj]
    /\ UNCHANGED <<pc, mode, cycle_active, particle_sensor, gpio, ready_level,
                   elapsed, raw, val, hist, nmeas, mid, count, main_alive,
                   last, bus>>

ExtractAirData(data) ==
    Decode("_extract_air_data", data, extract_air_data(NewObject, data))

ExtractAirQualityData(data) ==
    Decode("_extract_air_quality_data", data,
           extract_air_quality_data(NewObject, data))

ExtractLightData(data) ==
    Decode("_extract_light_data", data, extract_light_data(NewObject, data))

ExtractSoundData(data) ==
    Decode("_extract_sound_data", data, extract_sound_data(NewObject, data))

SetSoundInterruptThreshold(peak) ==
    /\ At("main", "idle")
    /\ io.call = "none"
    /\ io' = [call |-> "set_sound_interrupt_threshold", arg |-> peak,
              exc |-> "none", msg |-> "",
              out |-> set_sound_interrupt_threshold(peak)]
    /\ UNCHANGED <<pc, mode, cycle_active, particle_sensor, gpio, ready_level,
                   elapsed, raw, val, hist, nmeas, mid, count, main_alive,
                   last, bus>>

SetLightInterruptThreshold(i, f) ==
    /\ At("main", "idle")
    /\ io.call = "none"
    /\ io' = [call |-> "set_light_interrupt_threshold", arg |-> <<i, f>>,
              exc |-> "none", msg |-> "",
              out |-> set_light_interrupt_threshold(i, f)]
    /\ UNCHANGED <<pc, mode, cycle_active, particle_sensor, gpio, ready_level,
                   elapsed, raw, val, hist, nmeas, mid, count, main_alive,
                   last, bus>>

\* the caller takes the result; the next call follows
CallReturns ==
    /\ io.call # "none"
    /\ io' = NoCall
    /\ UNCHANGED <<pc, mode, cycle_active, particle_sensor, gpio, ready_level,
                   elapsed, raw, val, hist, nmeas, mid, count, main_alive,
                   last, bus>>

\* a constructed sensor, with any of the particle sensor settings
InitCodec ==
    /\ pc = [t \in Threads |->
               IF t = "main" THEN [at |-> "idle", c |-> 0]
                             ELSE [at |-> "off", c |-> 0]]
    /\ mode = ModeObject(on_demand, default_cycle_time)
    /\ cycle_active = FALSE
    /\ particle_sensor \in {particle_sensor_off, particle_sensor_ppd42,
                            particle_sensor_sds011}
    /\ gpio = [setup |-> TRUE, armed |-> TRUE, event |-> FALSE]
    /\ ready_level = 0
    /\ elapsed = [t \in Threads |-> 0]
    /\ raw = NoRaw
    /\ val = NoVal
    /\ hist = [t \in Threads |-> <<>>]
    /\ nmeas = 0
    /\ mid = [t \in Threads |-> 0]
    /\ count = 1
    /\ main_alive = TRUE
    /\ last = Outcome("_init_hardware", None, "none", FALSE, mode, mode)
    /\ bus = [resets |-> 1, reader |-> "none"]
    /\ io = NoCall

\* a decoder or a setter is called with some input
CallCodec ==
    /\ io.call = "none"
    /\ \/ \E data \in ParticleDataArgs : ExtractParticleData(data)
       \/ \E data \in AirDataArgs : ExtractAirData(data)
       \/ \E data \in AirQualityDataArgs : ExtractAirQualityData(data)
       \/ \E data \in LightDataArgs : ExtractLightData(data)
       \/ \E data \in SoundDataArgs : ExtractSoundData(data)
       \/ \E peak \in PeakArgs : SetSoundInterruptThreshold(peak)
       \/ \E i \in LuxArgs, f \in FracArgs : SetLightInterruptThreshold(i, f)

NextCodec ==
    \/ CallCodec
    \/ CallReturns

SpecCodec == InitCodec /\ [][NextCodec]_vars

(* ======================= claims ======================= *)

ValidArg(m) == m # None /\ Get(m) \in ValidModes

\* C1: for every valid mode value, setting the mode (set_mode, SensorMode(...)
\* or change_sensor_mode) succeeds without an error and leaves trigger_byte
\* equal to the command of that mode (standby 0xE5, cycle 0xE4, on-demand
\* 0xE1).
C1_SetModeYieldsTriggerByte ==
    (/\ last.call \in {"set_mode", "SensorMode", "change_sensor_mode"}
     /\ ValidArg(last.arg))
    => /\ last.exc = "none"
       /\ HasAttr(last.obj, "trigger_byte")
       /\ last.obj.trigger_byte = ModeCmd(Get(last.arg))

\* C2: for every integer mode outside {standby, cycle, on-demand}, set_mode
\* and change_sensor_mode fail with ValueError and leave the sensor's mode
\* object (mode_name, mode_value, trigger_byte, cycle_time) unchanged.
C2_InvalidModeValueError ==
    (/\ last.call \in {"set_mode", "change_sensor_mode"}
     /\ InvalidArg(last.arg))
    => /\ last.exc = "ValueError"
       /\ last.raised
       /\ mode = last.before

\* C3: when Sensor(mode) or change_sensor_mode(mode) is called with an invalid
\* mode, the call has performed no I2C and no GPIO operation when the error
\* is raised.
C3_InvalidModeBeforeHardware ==
    (/\ last.call \in {"Sensor", "change_sensor_mode"}
     /\ InvalidArg(last.arg))
    => /\ last.raised
       /\ At("main", "idle")
       /\ hist["main"] = <<>>

\* a Sensor(mode) call with an invalid mode raised, on armed hardware
C3_Witness ==
    /\ last.call = "Sensor"
    /\ InvalidArg(last.arg)
    /\ last.raised
    /\ gpio.armed

\* C4: constructing SensorMode / Sensor with the mode omitted yields on-demand
\* mode (2); constructing it with a valid mode, standby (0) included, yields
\* that mode.
C4_ConstructedMode ==
    (/\ last.call \in {"SensorMode", "Sensor"}
     /\ ~InvalidArg(last.arg))
    => /\ last.exc = "none"
       /\ HasAttr(last.obj, "mode_value")
       /\ last.obj.mode_value =
            (IF last.arg = None THEN on_demand ELSE Get(last.arg))

InIsReady(t) == pc[t].at \in {"poll", "sleep"}
IsRead(e) == e.op = "read"
IsWrite(e) == e.op = "write"
Reads(h) == SelectSeq(h, IsRead)
Writes(h) == SelectSeq(h, IsWrite)
IsPrefix(a, b) == Len(a) <= Len(b) /\ \A i \in 1..Len(a) : a[i] = b[i]
\* the block reads of one measurement
CanonReads == [c \in Cats |-> EvRead(c)]
\* the hardware operations of one measurement by control flow t
Canon(t) ==
    (IF t = "main" THEN <<Ev("write", mode.trigger_byte)>> ELSE <<>>)
    \o <<Ev("ready", 0), Ev("delay", 0)>> \o CanonReads

\* C5: is_ready always terminates; it returns True only when a falling-edge
\* event on the READY pin was detected, and otherwise raises IOError at the
\* first poll after more than TIMEOUT has elapsed (one poll interval past
\* the timeout); it never returns without a detected edge.
C5_IsReadyTerminates ==
    /\ [][(InIsReady("main") /\ ~InIsReady("main")') =>
            \/ /\ pc'["main"].at = "stabilize"
               /\ gpio.event
            \/ /\ pc'["main"].at = "idle"
               /\ last'.exc = "IOError"
               /\ pc["main"].at = "sleep"
               /\ elapsed["main"] = TimeoutPolls]_vars
    /\ (InIsReady("main") ~> ~InIsReady("main"))

\* is_ready timed out inside measure
C5_Witness ==
    /\ At("main", "idle")
    /\ last.call = "measure"
    /\ last.exc = "IOError"

\* C6: when is_ready times out inside measure(), the error reaches the caller
\* of measure() (the call does not return normally), and the call wrote the
\* trigger once only.
C6_TimeoutSurfaced ==
    (last.call = "measure" /\ last.exc = "IOError")
    => /\ last.raised
       /\ Len(Writes(hist["main"])) = 1

\* C7: after any sequence of measure() calls the readings of the five
\* categories all come from one single measurement; a measurement whose
\* decode failed leaves none of its values behind.
C7_NoPartialSnapshot ==
    At("main", "idle") => \A c1, c2 \in Cats : val[c1] = val[c2]

\* C8: the block reads of a measurement are issued in the order air (0x10,
\* 12), air quality (0x11, 10), light (0x12, 5), sound (0x13, 18),
\* particulate (0x14, 6), and no block read of another measurement comes
\* between two block reads of a measurement, the cycle worker and measure()
\* running together included.
C8_FixedOrderNoInterleaving ==
    /\ [](\A t \in Threads : IsPrefix(Reads(hist[t]), CanonReads))
    /\ [][\A t \in Threads :
            (pc[t].at = "read" /\ pc'[t].at = "extract" /\ pc[t].c > 1)
            => bus.reader = t]_vars

\* C9: a block read is issued only after, in the same measure() call or cycle
\* iteration, the trigger write (measure), a successful is_ready and exactly
\* one stabilization delay, in that order; after a timeout of is_ready no
\* block read is issued and the decoded readings are unchanged.
C9_HandshakeBeforeReads ==
    /\ [](\A t \in Threads :
            Reads(hist[t]) # <<>> => IsPrefix(hist[t], Canon(t)))
    /\ [][\A t \in Threads :
            (pc[t].at = "sleep" /\ pc'[t].at \notin {"sleep", "poll"})
            => (val' = val /\ Reads(hist'[t]) = <<>>)]_vars

\* the caller's measure() and a cycle iteration have both issued their reads
C9_Witness ==
    /\ Len(Reads(hist["main"])) = NumCats
    /\ Len(Reads(hist["worker"])) = NumCats

\* C10 as stated: in every measure() call the trigger write is preceded by a
\* reset write (0xE2) of the same call.
C10_ResetInSameCall ==
    (last.call = "measure" /\ hist["main"] # <<>>)
    => \E i, j \in DOMAIN hist["main"] :
         /\ i < j
         /\ hist["main"][i] = Ev("write", reset_cmd)
         /\ hist["main"][j] = Ev("write", mode.trigger_byte)

\* C10 amended: the reset command is written once, by _init_hardware when the
\* Sensor is constructed; a measure() call writes the trigger byte first and
\* writes nothing else.
C10_ResetAtConstruction ==
    last.call = "measure"
    => /\ bus.resets = 1
       /\ hist["main"] # <<>>
       /\ hist["main"][1] = Ev("write", mode.trigger_byte)
       /\ Len(Writes(hist["main"])) = 1

\* a measure() call that read all its blocks and returned
C10_Witness ==
    /\ At("main", "idle")
    /\ last.call = "measure"
    /\ last.exc = "none"
    /\ Len(Reads(hist["main"])) = NumCats

\* a trigger or command write to the board by the caller's running call:
\* the trigger byte of measure() and standby(), the period and trigger of
\* cycle(); the reset write of _init_hardware is not one
TriggerWrite ==
    /\ hist'["main"] # hist["main"]
    /\ hist'["main"] # <<>>
    /\ LET e == hist'["main"][Len(hist'["main"])]
       IN  /\ e.op \in {"write", "write_block"}
           /\ e.v # reset_cmd

\* C11: whenever measure(), standby() or cycle() writes a trigger or command
\* to the board, falling-edge detection on the READY pin is enabled at that
\* moment, for every sequence of public calls, cleanup_gpio() followed by
\* another measure() included.
C11_ArmedBeforeTrigger ==
    [][TriggerWrite => gpio.armed]_vars

\* the particle attributes of a sensor that has none configured
NoParticleReading ==
    [duty_cycle_pc |-> None, concentration |-> None, conc_unit |-> None,
     particle_data_valid |-> FALSE]

\* C12: with particle_sensor = off, _extract_particle_data assigns
\* duty_cycle_pc = None, concentration = None, conc_unit = None and
\* particle_data_valid = False whatever the raw bytes are, a block of the
\* wrong length included, and raises nothing.
C12_NoSensorNullReading ==
    (io.call = "_extract_particle_data"
     /\ particle_sensor = particle_sensor_off)
    => /\ io.exc = "none"
       /\ io.out = NoParticleReading

\* the decoder ran on a block of the wrong length with no sensor configured
C12_Witness ==
    /\ io.call = "_extract_particle_data"
    /\ particle_sensor = particle_sensor_off
    /\ Len(io.arg) # particle_data_bytes
    /\ io.out = NoParticleReading

\* C13: with particle_sensor = off no block read of the particulate register
\* (0x14) is issued, in any measure() call or cycle iteration.
C13_NoParticleReadWhenOff ==
    particle_sensor = particle_sensor_off
    => \A t \in Threads : \A i \in DOMAIN hist[t] :
         ~(hist[t][i].op = "read" /\ hist[t][i].v = particle_data_read)

\* C14: once stop_cycle() has cleared the flag, the worker's next evaluation
\* of the loop condition ends the loop: it starts no further iteration (no
\* is_ready, no block read).
C14_StopCycleEndsLoop ==
    [][(~cycle_active /\ At("worker", "w_loop"))
       => pc'["worker"].at # "w_alive"]_vars

\* C15: when the loop of _run_cycle has stopped, the loop wrote the standby
\* trigger (0xE5) exactly once and that write was its last bus operation.
C15_StandbyWhenLoopStops ==
    At("worker", "w_done")
    => /\ hist["worker"] # <<>>
       /\ hist["worker"][Len(hist["worker"])] = Ev("write", standby_mode_cmd)
       /\ Len(Writes(hist["worker"])) = 1

\* the worker is at a step that raises: the poll that exceeds the timeout, or
\* the decode of a block of the wrong length
WorkerError ==
    \/ At("worker", "sleep") /\ TimedOut(elapsed["worker"] + 1)
    \/ At("worker", "extract") /\ LengthError(pc["worker"].c)

\* C16: in the loop of _run_cycle the iteration in which is_ready times out
\* or a decoder finds a wrong length is the last: the loop ends there and
\* the worker issues no is_ready and no block read afterwards.
C16_ErrorEndsLoop ==
    /\ [][(WorkerError /\ pc'["worker"] # pc["worker"])
          => pc'["worker"].at = "w_done"]_vars
    /\ [][At("worker", "w_done")
          => (pc'["worker"] = pc["worker"]
              /\ hist'["worker"] = hist["worker"])]_vars

\* the loop ended on a wrong block length while the main thread is alive
C16_Witness ==
    /\ At("worker", "w_done")
    /\ main_alive
    /\ Reads(hist["worker"]) # <<>>
    /\ Len(Reads(hist["worker"])) < NumCats

\* C17: cycle() writes the cycle period to register 0x89 and then the
\* cycle-mode trigger (0xE4), once, before the loop starts; the iterations of
\* the loop write nothing.
C17_CycleTriggersOnce ==
    /\ last.call = "cycle"
       => /\ last.exc = "none"
          /\ hist["main"] = <<Ev("write_block", cycle_time_period_reg),
                              Ev("write", cycle_mode_cmd)>>
    /\ Writes(hist["worker"]) = <<>>

\* a control flow is between the start of is_ready and the end of its reads
InFlight(t) == pc[t].at \in {"poll", "sleep", "stabilize", "read", "extract"}

\* C18: at no time are two control flows both between their is_ready and the
\* end of their block reads.
C18_OneMeasurementInFlight ==
    ~(InFlight("main") /\ InFlight("worker"))

\* C19: for every peak in 0..65535, set_sound_interrupt_threshold(peak)
\* writes two bytes [low, high] to register 0x86, each in 0..255, with
\* low | (high << 8) = peak.
C19_SoundThresholdRoundTrip ==
    (io.call = "set_sound_interrupt_threshold" /\ io.arg \in 0..uint16_max)
    => /\ io.out.reg = sound_interrupt_threshold_reg
       /\ Len(io.out.data) = 2
       /\ \A k \in 1..2 : io.out.data[k] \in 0..255
       /\ BitOr(io.out.data[1], ShiftLeft(io.out.data[2], 8)) = io.arg

\* the threshold 0xABCD was written
C19_Witness ==
    /\ io.call = "set_sound_interrupt_threshold"
    /\ io.arg = 43981
    /\ io.out.data = <<205, 171>>

\* C20: when light_thres_lux_i + light_thres_lux_f2dp/100 exceeds
\* max_lux_value, the three bytes set_light_interrupt_threshold writes to
\* register 0x82 encode max_lux_value.
C20_LightThresholdLimited ==
    (/\ io.call = "set_light_interrupt_threshold"
     /\ io.arg[1] * 100 + io.arg[2] > max_lux_value * 100)
    => /\ io.out.reg = light_interrupt_threshold_reg
       /\ io.out.data = <<BitAnd(max_lux_value, 255),
                          ShiftRight(max_lux_value, 8), 0>>

\* a decoder returned normally
Decoded_ok(name) == io.call = name /\ io.exc = "none"

\* C21: for every pair of bytes (b0, b1) the temperature is decoded as
\* sign-magnitude: the magnitude is (b0 & 0x7F) + b1/10, negated exactly when
\* b0 & 0x80 is nonzero, the sign applied after the fraction is added
\* ([0x16, 0x05] gives 22.5, [0x96, 0x05] gives -22.5).  In tenths.
C21_TemperatureSignMagnitude ==
    Decoded_ok("_extract_air_data")
    => LET b0 == io.arg[1]
           b1 == io.arg[2]
           magnitude == (b0 % 128) * 10 + b1
       IN  /\ io.out.temp_c = IF b0 >= 128 THEN 0 - magnitude ELSE magnitude
           /\ (b0 = 22 /\ b1 = 5) => io.out.temp_c = 225
           /\ (b0 = 150 /\ b1 = 5) => io.out.temp_c = 0 - 225

\* the block [0x96, 0x05, ...] was decoded as -22.5
C21_Witness ==
    /\ Decoded_ok("_extract_air_data")
    /\ io.arg[1] = 150
    /\ io.arg[2] = 5
    /\ io.out.temp_c = 0 - 225

\* C22: the label of the AQI is a total function of the decoded AQI with
\* half-open bands: below 50 Good, 50 to below 100 Acceptable, 100 to below
\* 150 Substandard, 150 to below 200 Poor, 200 to below 300 Bad, 300 and
\* above Very bad; after every successful air-quality decode the stored
\* label is that function of the stored AQI (49.9 Good, 50.0 Acceptable,
\* 299.9 Bad, 300.0 Very bad).  The AQI in tenths.
C22_AqiBanding ==
    Decoded_ok("_extract_air_quality_data")
    => LET aqi == io.out.aqi
           label == io.out.int_aqi
       IN  /\ aqi = (io.arg[1] + 256 * io.arg[2]) * 10 + io.arg[3]
           /\ label = "Good" <=> aqi < 500
           /\ label = "Acceptable" <=> (500 <= aqi /\ aqi < 1000)
           /\ label = "Substandard" <=> (1000 <= aqi /\ aqi < 1500)
           /\ label = "Poor" <=> (1500 <= aqi /\ aqi < 2000)
           /\ label = "Bad" <=> (2000 <= aqi /\ aqi < 3000)
           /\ label = "Very bad" <=> 3000 <= aqi

\* an AQI of exactly 300.0 was decoded and labelled
C22_Witness ==
    /\ Decoded_ok("_extract_air_quality_data")
    /\ io.out.aqi = 3000
    /\ io.out.int_aqi = "Very bad"

\* the decoders, the category each belongs to and the message of its length
\* check
Decoders ==
    {"_extract_air_data", "_extract_air_quality_data", "_extract_light_data",
     "_extract_sound_data", "_extract_particle_data"}
CategoryOf(name) ==
    CASE name = "_extract_air_data" -> 1
      [] name = "_extract_air_quality_data" -> 2
      [] name = "_extract_light_data" -> 3
      [] name = "_extract_sound_data" -> 4
      [] name = "_extract_particle_data" -> 5
LengthMessageOf(name) ==
    CASE name = "_extract_air_data" -> "Incorrect number of Air Data bytes"
      [] name = "_extract_air_quality_data" ->
           "Incorrect number of Air Quality Data bytes"
      [] name = "_extract_light_data" ->
           "Incorrect number of Light Data bytes supplied to function"
      [] name = "_extract_sound_data" ->
           "Incorrect number of Sound Data bytes supplied to function"
      [] name = "_extract_particle_data" ->
           "Incorrect number of Particle Data bytes supplied to function"
\* a decoder was handed a block of the wrong length (the particulate decoder
\* with a particle sensor configured)
WrongLength ==
    /\ io.call \in Decoders
    /\ Len(io.arg) # DataBytes(CategoryOf(io.call))
    /\ ~(io.call = "_extract_particle_data"
         /\ particle_sensor = particle_sensor_off)

\* C23: each category decoder (air 12, air quality 10, light 5, sound 18,
\* particulate 6 bytes with a sensor configured) checks the length of its
\* block first: on a block of any other length it raises an error whose
\* message names the category and assigns none of the category's fields;
\* on a block of the declared length it raises nothing.
C23_LengthCheckedFirst ==
    /\ WrongLength
       => /\ io.exc = "Exception"
          /\ io.msg = LengthMessageOf(io.call)
          /\ io.out = NewObject
    /\ (io.call \in Decoders /\ ~WrongLength) => io.exc = "none"

\* the light decoder was handed a block of 4 bytes
C23_Witness ==
    /\ WrongLength
    /\ io.call = "_extract_light_data"
    /\ Len(io.arg) = light_data_bytes - 1
    /\ io.exc = "Exception"

\* C28: the sound block is decoded with parallel band arrays: overall dBA is
\* byte[0] + byte[1]/10, the level of band i (0..5) is byte[2+i] +
\* byte[8+i]/10, the peak amplitude is byte[14] + (byte[15] << 8) +
\* byte[16]/100 and the stability flag is byte[17].  Tenths and hundredths;
\* byte[k] is io.arg[k + 1].
C28_SoundParallelBands ==
    Decoded_ok("_extract_sound_data")
    => /\ io.out.spl_dba = io.arg[1] * 10 + io.arg[2]
       /\ DOMAIN io.out.spl_bands_db = 0..5
       /\ \A i \in 0..5 :
            io.out.spl_bands_db[i] = io.arg[3 + i] * 10 + io.arg[9 + i]
       /\ io.out.peak_amp = (io.arg[15] + 256 * io.arg[16]) * 100 + io.arg[17]
       /\ io.out.stable = io.arg[18]
       /\ Len(io.arg) = 18

\* a sound block of 18 different bytes was decoded
C28_Witness ==
    /\ Decoded_ok("_extract_sound_data")
    /\ \A j, k \in 1..18 : j # k => io.arg[j] # io.arg[k]
    /\ HasAttr(io.out, "stable")

\* C29: after every successful light decode, for any block of 5 bytes, the
\* stored lux value is at most max_lux_value (3774).  lux in hundredths.
C29_LuxCapped ==
    Decoded_ok("_extract_light_data")
    => io.out.lux <= max_lux_value * 100

\* C24: whatever mode is active (standby, cycle or on-demand), the single
\* byte standby() writes to the device is the standby trigger 0xE5, never a
\* measurement trigger (0xE1, 0xE4).
C24_StandbyWritesStandbyTrigger ==
    last.call = "standby"
    => hist["main"] = <<Ev("write", standby_mode_cmd)>>

\* C25: a successful is_ready consumes the edge-detected flag, and whenever
\* measure() begins to wait the flag is clear, so that the edge is_ready
\* reports fell after the trigger write of that call (an edge that arrives
\* late, after the previous call timed out, is not taken for the next
\* measurement).
C25_IsReadyStartsClean ==
    /\ [][(At("main", "poll") /\ pc'["main"].at = "stabilize")
          => ~gpio'.event]_vars
    /\ [][(At("main", "idle") /\ pc'["main"].at = "poll")
          => ~gpio.event]_vars

\* C26: at every moment while the cycle worker runs, the readings the sensor
\* exposes come from one measurement: never some categories from a newer
\* measurement than others, never some assigned and others not yet.
C26_ReaderSeesWholeSnapshot ==
    \A c1, c2 \in Cats : val[c1] = val[c2]

\* C27: for every cycle_time argument (omitted, 0, negative, positive) given
\* to SensorMode, Sensor or change_sensor_mode the stored cycle period is at
\* least 1, and 5 when the argument is omitted; the value cycle() writes to
\* register 0x89 is the stored period.
C27_CyclePeriodPositive ==
    /\ (last.call \in {"SensorMode", "Sensor", "change_sensor_mode"}
        /\ ~InvalidArg(last.arg))
       => /\ last.exc = "none"
          /\ HasAttr(last.obj, "cycle_time")
          /\ last.obj.cycle_time >= 1
    /\ \A m \in {None} \cup {Some(v) : v \in ValidModes}, ct \in CycleArgs :
         LET self == SensorMode__init__(m, ct).obj
         IN  /\ HasAttr(self, "cycle_time")
             /\ self.cycle_time >= 1
             /\ ct = None => self.cycle_time = default_cycle_time
    /\ last.call = "cycle"
       => hist["main"] # <<>> /\ hist["main"][1].op = "write_block"

\* C30: once the main thread is no longer alive, the worker leaves its loop
\* at the start of its next iteration: it enters no further is_ready from
\* there, and it ends.
C30_WorkerEndsAfterMain ==
    /\ [][(~main_alive /\ At("worker", "w_alive"))
          => pc'["worker"].at \in {"w_alive", "w_done"}]_vars
    /\ (~main_alive ~> At("worker", "w_done"))

\* the worker finished an iteration and left the loop after the main thread
\* had ended
C30_Witness ==
    /\ ~main_alive
    /\ At("worker", "w_done")
    /\ \A c \in Cats : val[c] > 0

====
